---- MODULE Spec2Model ----
(***************************************************************************)
(* Model of the assessor scoring service (src/app.py and the analyzers     *)
(* under src/dimensions/).                                                 *)
(*                                                                         *)
(* Numbers.  The program computes with floats; the model computes with     *)
(* integers on fixed scales:                                               *)
(*   - "milli": thousandths, for every value the program rounds to three   *)
(*     decimals (round(x, 3));                                             *)
(*   - the unrounded IAI score is a fraction with denominator IAI_DEN.     *)
(*                                                                         *)
(* Texts.  A text is represented by the counts the analyzers extract from  *)
(* it (keyword hits, pattern matches, word counts).  The sample texts are  *)
(* concrete strings; their counts were extracted with the analyzers' own   *)
(* keyword and pattern tables.                                             *)
(***************************************************************************)
EXTENDS Integers, Sequences, FiniteSets, TLC

VARIABLES
    conversation_history,   \* src/app.py:27, the process-wide window
    request,                \* the request handled last
    reply,                  \* the reply to it
    log,                    \* history variable: every turn ever appended
    args,                   \* the arguments of a function applied on its own
    result,                 \* and what it returned
    threads                 \* the requests being served concurrently

vars == <<conversation_history, request, reply, log, args, result, threads>>

\* ------------------------------------------------------------------ bounds
MaxTurns == 2          \* full exchanges per behaviour of Spec
MaxExchanges == 12     \* full exchanges per behaviour of SpecLong

\* ---------------------------------------------------------------- helpers
Min(a, b) == IF a <= b THEN a ELSE b
Max(a, b) == IF a >= b THEN a ELSE b
Abs(a) == IF a >= 0 THEN a ELSE 0 - a

\* RoundDiv(n, d): n/d rounded to the nearest integer, as round(x, 3) rounds
\* x = n/(1000*d) to thousandths.  At an exact tie the program's result
\* depends on the float's representation error; the model sends a tie to the
\* even neighbour, and no sample text below produces one.
RoundDiv(n, d) ==
    LET q == n \div d
        r == n % d
    IN  IF 2 * r < d THEN q
        ELSE IF 2 * r > d THEN q + 1
        ELSE IF q % 2 = 0 THEN q ELSE q + 1

\* The first key of `keys` (a sequence, in dict order) with the largest value:
\* Python's max(d.items(), key=lambda x: x[1])[0].
FirstMax(keys, val) ==
    LET best[i \in 1..Len(keys)] ==
            IF i = 1 THEN keys[1]
            ELSE IF val[keys[i]] > val[best[i - 1]] THEN keys[i] ELSE best[i - 1]
    IN  best[Len(keys)]

\* ------------------------------------------------------------ scales
\* Sub-scores of IAI are fractions over COMP_DEN (thirds, twentieths and
\* 130ths occur); the weighted IAI score is a fraction over IAI_DEN.
COMP_DEN == 3 * 20 * 130
IAI_DEN == COMP_DEN * 100

\* ================================================================ IAI
\* src/dimensions/iai.py.  f: the prompt's counts.
score_context_completeness(f) ==
    Min((f.context_markers * COMP_DEN) \div 3, COMP_DEN)

score_specificity(f) ==
    Min(((7 * f.concrete_score + 3 * f.param_score) * COMP_DEN) \div 50, COMP_DEN)

score_language_quality(f) ==
    LET sentences == Max(f.sentence_count, 1)
    IN  IF f.word_count = 0 THEN 0
        ELSE IF f.word_count < 5 * sentences THEN (3 * COMP_DEN) \div 10
        ELSE IF f.word_count <= 20 * sentences THEN (8 * COMP_DEN) \div 10
        ELSE IF f.word_count <= 30 * sentences THEN (5 * COMP_DEN) \div 10
        ELSE (2 * COMP_DEN) \div 10

score_structure(f) ==
    LET question_bonus == IF f.has_question THEN (2 * COMP_DEN) \div 10 ELSE 0
    IN  Min(Min((f.organizers * COMP_DEN) \div 3, (8 * COMP_DEN) \div 10)
            + question_bonus, COMP_DEN)

score_sufficiency(f) ==
    LET optimal_min == 20
        optimal_max == 150
    IN  IF f.word_count < 5 THEN COMP_DEN \div 10
        ELSE IF f.word_count < optimal_min
             THEN (3 * COMP_DEN) \div 10
                  + (f.word_count * 3 * COMP_DEN) \div (optimal_min * 10)
        ELSE IF f.word_count <= optimal_max
             THEN (6 * COMP_DEN) \div 10
                  + ((f.word_count - optimal_min) * 3 * COMP_DEN)
                        \div ((optimal_max - optimal_min) * 10)
        ELSE (9 * COMP_DEN) \div 10

score_tone(f) ==
    LET base_score == (6 * COMP_DEN) \div 10
        clarity_bonus == Min((f.clarity_indicators * 2 * COMP_DEN) \div 10,
                             (4 * COMP_DEN) \div 10)
    IN  Min(base_score + clarity_bonus, COMP_DEN)

\* iai_score, unrounded, over IAI_DEN (weights in hundredths).
IAI_analyze(f) ==
    Min(  score_context_completeness(f) * 20
        + score_specificity(f) * 25
        + score_language_quality(f) * 20
        + score_structure(f) * 15
        + score_sufficiency(f) * 10
        + score_tone(f) * 10,
        IAI_DEN)

\* ================================================================ CAI
\* src/dimensions/cai.py.  g: the response's counts; the anchors counted are
\* the matches that passed _validate_anchor.  Score in milli.
\* Mutant: the hypothesis family is not counted.
total_valid_anchors_two_families(g) == g.boundary_count + g.analogy_count

total_valid_anchors(g) == g.boundary_count + g.analogy_count + g.hypothesis_count

\* Mutant: a quarter per anchor, without the ceiling.
CAI_analyze_linear(g) == total_valid_anchors(g) * 250

CAI_analyze(g) ==
    LET n == total_valid_anchors(g)
    IN  IF n = 0 THEN 0
        ELSE IF n = 1 THEN 250
        ELSE IF n = 2 THEN 500
        ELSE IF n = 3 THEN 750
        ELSE 1000

\* ================================================================ PAS
\* src/dimensions/pas.py.  Sub-scores and score in milli.
\* Mutant: the sequencing words are not capped at 0.3.
analyze_chunking_seq_uncapped(g) ==
    Min(  (IF g.multi_paragraph THEN 300 ELSE 0)
        + g.seq_count * 150
        + Min(g.list_count * 100, 400),
        1000)

analyze_chunking(g) ==
    Min(  (IF g.multi_paragraph THEN 300 ELSE 0)
        + Min(g.seq_count * 150, 300)
        + Min(g.list_count * 100, 400),
        1000)

analyze_structure(g) ==
    Min(  (IF g.has_headings THEN 400 ELSE 0)
        + (IF g.list_count >= 2 THEN 400 ELSE IF g.list_count = 1 THEN 200 ELSE 0)
        + (IF g.has_elements THEN 200 ELSE 0),
        1000)

\* Mutant: `> 3` for `>= 3`.
analyze_collaboration_gt3(g) ==
    IF g.collab_count > 3 THEN 1000
    ELSE IF g.collab_count = 2 THEN 700
    ELSE IF g.collab_count = 1 THEN 400
    ELSE 100

analyze_collaboration(g) ==
    IF g.collab_count >= 3 THEN 1000
    ELSE IF g.collab_count = 2 THEN 700
    ELSE IF g.collab_count = 1 THEN 400
    ELSE 100

analyze_rhythm(g) ==
    Min(  Min(g.question_count * 200, 400)
        + Min(g.pause_count * 150, 300)
        + (IF g.variation_ok THEN 300 ELSE 0),
        1000)

PAS_analyze(g) ==
    RoundDiv(  analyze_chunking(g) * 30
             + analyze_structure(g) * 25
             + analyze_collaboration(g) * 25
             + analyze_rhythm(g) * 20,
             100)

\* ================================================================ SAS
\* src/dimensions/sas.py.  Style intensities in tenths, the rest in milli.
StyleNames == <<"formal", "informal", "direct", "narrative", "data_driven">>

\* style: matches per family; each match adds 0.1, capped at 1.0.
analyze_user_style(style) ==
    [name \in {StyleNames[i] : i \in 1..Len(StyleNames)} |-> Min(style[name], 10)]

analyze_ai_style_sas(style) == analyze_user_style(style)

\* The float sum of three increments of 0.1 is 0.30000000000000004, which the
\* program's `> 0.3` accepts: the bonus needs an intensity of 3 tenths or more.
calculate_style_sync(user_style, ai_style) ==
    LET user_dominant == FirstMax(StyleNames, user_style)
        ai_dominant == FirstMax(StyleNames, ai_style)
        bonus == IF user_dominant = ai_dominant /\ user_style[user_dominant] >= 3
                 THEN 400 ELSE 0
        sim[i \in 0..Len(StyleNames)] ==
            IF i = 0 THEN 0
            ELSE sim[i - 1]
                 + (10 - Abs(user_style[StyleNames[i]] - ai_style[StyleNames[i]])) * 20
    IN  Min(bonus + Min(sim[Len(StyleNames)], 600), 1000)

calculate_goal_sync(f, g) ==
    IF ~f.has_goals THEN 700
    ELSE IF g.goal_ack THEN 900
    ELSE 600

\* Whether the response meets the expectation the prompt's word implies
\* (the if/elif chain of the loop body).
expectation_met(word, g) ==
    IF word \in {"list", "bullet"} /\ g.has_list_marker THEN TRUE
    ELSE IF word \in {"summary", "brief"} /\ g.word_count < 150 THEN TRUE
    ELSE IF word \in {"detailed", "complex"} /\ g.word_count > 200 THEN TRUE
    ELSE word \in g.contains_words

calculate_expectation_sync(f, g) ==
    LET expectation_matches ==
            Cardinality({w \in f.expectation_words : expectation_met(w, g)})
    IN  IF expectation_matches > 0
        THEN Min(500 + expectation_matches * 200, 1000)
        ELSE 700

calculate_depth_sync(f, g) ==
    LET ideal_response == IF f.word_count < 10 THEN 50
                          ELSE IF f.word_count < 30 THEN 100
                          ELSE 200
        r == g.word_count
    IN  IF 10 * r >= 7 * ideal_response /\ 10 * r <= 13 * ideal_response THEN 900
        ELSE IF 10 * r >= 4 * ideal_response /\ 10 * r <= 16 * ideal_response THEN 700
        ELSE 400

SAS_analyze(f, g) ==
    RoundDiv(  calculate_style_sync(analyze_user_style(f.style),
                                    analyze_ai_style_sas(g.style)) * 35
             + calculate_goal_sync(f, g) * 25
             + calculate_expectation_sync(f, g) * 20
             + calculate_depth_sync(f, g) * 20,
             100)

\* ================================================================ CPS
\* src/dimensions/cps.py.
Levels == <<1, 2, 3, 4, 5>>

\* Mutant: the raw counts are compared, without the weight of the level.
detect_user_level_unweighted(f) ==
    LET level_scores == [l \in 1..5 |-> f.user_keywords[l]]
    IN  FirstMax(Levels, level_scores)

\* user_keywords[l]: user keywords of level l found in the prompt.  The
\* program compares score * (1 + 0.1 * level); the model compares ten times that.
detect_user_level(f) ==
    LET level_scores == [l \in 1..5 |-> f.user_keywords[l] * (10 + l)]
    IN  FirstMax(Levels, level_scores)

\* ai_keywords[l]: AI keywords of level l found in the response.  level_scores
\* is never empty, so the `return 2` branch is dead: with no match at all,
\* max() returns the first level.
detect_ai_level(g) ==
    LET level_scores == [l \in 1..5 |-> g.ai_keywords[l]]
    IN  FirstMax(Levels, level_scores)

\* history[-n:]
LastTurns(history, n) ==
    SubSeq(history, Max(1, Len(history) - n + 1), Len(history))

MaxLevel(turns) ==
    LET m[i \in 0..Len(turns)] ==
            IF i = 0 THEN 0 ELSE Max(m[i - 1], turns[i].cps_level)
    IN  m[Len(turns)]

\* Mutant: min(previous_levels) for max(previous_levels).
determine_achieved_level_above_min(user_level, ai_level, history) ==
    LET base_level == Max(user_level, ai_level)
        previous_levels == LastTurns(history, 3)
        lowest[i \in 0..Len(previous_levels)] ==
            IF i = 0 THEN 5 ELSE Min(lowest[i - 1], previous_levels[i].cps_level)
        progressed ==
            IF Len(history) > 0 /\ base_level > lowest[Len(previous_levels)]
            THEN Min(base_level + 1, 5)
            ELSE base_level
        achieved_level == Max(progressed, user_level)
    IN  Min(achieved_level, 5)

\* Mutant: the whole history is consulted, not its last 3 turns.
determine_achieved_level_whole_history(user_level, ai_level, history) ==
    LET base_level == Max(user_level, ai_level)
        progressed ==
            IF Len(history) > 0 /\ base_level > MaxLevel(history)
            THEN Min(base_level + 1, 5)
            ELSE base_level
        achieved_level == Max(progressed, user_level)
    IN  Min(achieved_level, 5)

\* Mutant: the bonus is also given for equalling the recent maximum.
determine_achieved_level_geq(user_level, ai_level, history) ==
    LET base_level == Max(user_level, ai_level)
        previous_levels == LastTurns(history, 3)
        progressed ==
            IF Len(history) > 0 /\ base_level >= MaxLevel(previous_levels)
            THEN Min(base_level + 1, 5)
            ELSE base_level
        achieved_level == Max(progressed, user_level)
    IN  Min(achieved_level, 5)

determine_achieved_level(user_level, ai_level, history) ==
    LET base_level == Max(user_level, ai_level)
        previous_levels == LastTurns(history, 3)
        progressed ==
            IF Len(history) > 0 /\ base_level > MaxLevel(previous_levels)
            THEN Min(base_level + 1, 5)
            ELSE base_level
        achieved_level == Max(progressed, user_level)
    IN  Min(achieved_level, 5)

\* achieved_level; cps_score is round(achieved_level / 5.0, 3).
CPS_analyze(f, g, history) ==
    determine_achieved_level(detect_user_level(f), detect_ai_level(g), history)

cps_score(achieved_level) == RoundDiv(achieved_level * 1000, 5)

\* ================================================================ CSS
\* src/dimensions/css.py.  Sub-scores in milli.
Clamp01(x) == Max(0, Min(x, 1000))

analyze_ai_safety(g) ==
    Clamp01(500 + g.positive_count * 100 + g.collaborative_count * 80
                + g.empowerment_count * 70 - g.negative_count * 150)

analyze_user_comfort(f) ==
    Clamp01(500 + f.comfortable_count * 100 - f.uncomfortable_count * 150)

\* interaction_data is built by the caller (src/app.py:101-105).
analyze_context(response_length, prompt_length) ==
    Clamp01(IF prompt_length > 0 /\ response_length > 0
            THEN IF response_length > 5 * prompt_length THEN 700 - 200
                 ELSE IF 2 * response_length < prompt_length THEN 700 + 100
                 ELSE 700
            ELSE 700)

\* The sub-scores are binary floats that the model keeps as their decimal
\* values in milli; combined_score is the decimal sum, times 10000.  The float
\* sum ai_safety * 0.6 + user_comfort * 0.3 + context * 0.1 differs from it by
\* rounding error only, which decides the comparison exactly when the decimal
\* sum equals a threshold: `below` says that the float sum is then below the
\* threshold (0.2 * 0.6 + 0.7 * 0.3 + 0.7 * 0.1 is 0.39999999999999997).
CssThresholds == {4000, 6000, 7000, 8000}

combined_score(ai_safety, user_comfort, context) ==
    ai_safety * 6 + user_comfort * 3 + context * 1

\* Mutant: the lowest level is 0.
determine_css_level_from_zero(ai_safety, user_comfort, context, below) ==
    LET combined == combined_score(ai_safety, user_comfort, context)
        reaches(threshold) ==
            combined > threshold \/ (combined = threshold /\ ~below)
    IN  IF reaches(8000) THEN 5
        ELSE IF reaches(7000) THEN 4
        ELSE IF reaches(6000) THEN 3
        ELSE IF reaches(4000) THEN 2
        ELSE 0

determine_css_level(ai_safety, user_comfort, context, below) ==
    LET combined == combined_score(ai_safety, user_comfort, context)
        reaches(threshold) ==
            combined > threshold \/ (combined = threshold /\ ~below)
    IN  IF reaches(8000) THEN 5
        ELSE IF reaches(7000) THEN 4
        ELSE IF reaches(6000) THEN 3
        ELSE IF reaches(4000) THEN 2
        ELSE 1

\* css_level; css_score is round(css_level / 5.0, 3).  Of the sample texts
\* only P_forloop with R_collab has a decimal sum on a threshold (1.0, 0.5 and
\* 0.5 give 0.8), and its float sum 0.8 is not below it.
CSS_analyze(f, g) ==
    determine_css_level(analyze_ai_safety(g), analyze_user_comfort(f),
                        analyze_context(g.word_count, f.word_count), FALSE)

css_score(css_level) == RoundDiv(css_level * 1000, 5)

\* ================================================================= AM
\* src/dimensions/am.py.
UipNames == <<"precision_seeker", "strategic_explorer", "co_creation_partner">>

\* uip_keywords[i]: keywords of UipNames[i] found in the prompt.
UipIndex == <<1, 2, 3>>

best_uip_index(f) ==
    LET uip_scores == [i \in 1..Len(UipNames) |-> f.uip_keywords[i]]
    IN  FirstMax(UipIndex, uip_scores)

\* <<best_uip, confidence in milli>>; confidence = min(best_score / 3.0, 1.0),
\* rounded by the caller (src/app.py:143).
detect_uip(f) ==
    LET i == best_uip_index(f)
    IN  <<UipNames[i], RoundDiv(Min(f.uip_keywords[i], 3) * 1000, 3)>>

\* Style scores in milli: 0.5 for a response of at most max_words words
\* (concise), 0.3 per pattern found (the others), capped at 1.0.
analyze_ai_style(g) ==
    [concise |-> IF g.word_count <= 150 THEN 500 ELSE 0,
     structured |-> Min(g.structured_hits * 300, 1000),
     interactive |-> Min(g.interactive_hits * 300, 1000),
     framework |-> Min(g.framework_hits * 300, 1000)]

\* Mutant: the sum is scaled to the preferred styles that have a score (two,
\* two and one), as if the match were their mean.
preferred_style_sum_scored_only(detected_uip, ai_style) ==
    IF detected_uip = "precision_seeker"
    THEN 2 * (ai_style.concise + ai_style.structured)
    ELSE IF detected_uip = "strategic_explorer"
    THEN 2 * (ai_style.framework + ai_style.structured)
    ELSE 4 * ai_style.interactive

\* Sum of ai_style over the intent's preferred_response_style; a preferred
\* style that _analyze_ai_style does not score counts 0 (ai_style.get(s, 0.0)).
preferred_style_sum(detected_uip, ai_style) ==
    IF detected_uip = "precision_seeker"
    THEN ai_style.concise + ai_style.structured + 0 + 0
    ELSE IF detected_uip = "strategic_explorer"
    THEN ai_style.framework + 0 + ai_style.structured + 0
    ELSE ai_style.interactive + 0 + 0 + 0

\* Mutant: no penalty for a long response to a precision seeker.
calculate_am_no_penalty(detected_uip, ai_style, word_count) ==
    LET style_match_score == Min(preferred_style_sum(detected_uip, ai_style), 4 * 1000)
        base == IF style_match_score >= 4 * 800 THEN 1200
                ELSE IF style_match_score >= 4 * 600 THEN 1100
                ELSE IF style_match_score >= 4 * 400 THEN 1000
                ELSE IF style_match_score >= 4 * 200 THEN 900
                ELSE 800
        bonus == IF detected_uip = "co_creation_partner" /\ ai_style.interactive > 500
                 THEN 100 ELSE 0
    IN  Max(800, Min(base + bonus, 1200))

\* Mutant: the final clamp is left out.
calculate_am_unclamped(detected_uip, ai_style, word_count) ==
    LET style_match_score == Min(preferred_style_sum(detected_uip, ai_style), 4 * 1000)
        base == IF style_match_score >= 4 * 800 THEN 1200
                ELSE IF style_match_score >= 4 * 600 THEN 1100
                ELSE IF style_match_score >= 4 * 400 THEN 1000
                ELSE IF style_match_score >= 4 * 200 THEN 900
                ELSE 800
        penalty == IF detected_uip = "precision_seeker" /\ word_count > 300
                   THEN 100 ELSE 0
        bonus == IF detected_uip = "co_creation_partner" /\ ai_style.interactive > 500
                 THEN 100 ELSE 0
    IN  base - penalty + bonus

\* am_score in milli.
calculate_am(detected_uip, ai_style, word_count) ==
    LET style_match_score == Min(preferred_style_sum(detected_uip, ai_style), 4 * 1000)
        base == IF style_match_score >= 4 * 800 THEN 1200
                ELSE IF style_match_score >= 4 * 600 THEN 1100
                ELSE IF style_match_score >= 4 * 400 THEN 1000
                ELSE IF style_match_score >= 4 * 200 THEN 900
                ELSE 800
        penalty == IF detected_uip = "precision_seeker" /\ word_count > 300
                   THEN 100 ELSE 0
        bonus == IF detected_uip = "co_creation_partner" /\ ai_style.interactive > 500
                 THEN 100 ELSE 0
    IN  Max(800, Min(base - penalty + bonus, 1200))

AM_analyze(f, g) ==
    calculate_am(detect_uip(f)[1], analyze_ai_style(g), g.word_count)

\* ======================================================== sample texts
\* Each sample is a concrete text, given by the counts the analyzers extract
\* from it.  Prompt counts: IAI (word_count .. clarity_indicators), SAS (style,
\* has_goals, expectation_words), CPS (user_keywords), CSS (comfortable_count,
\* uncomfortable_count), AM (uip_keywords).  Response counts: CAI (the three
\* anchor counts), PAS (multi_paragraph .. variation_ok), SAS (style, goal_ack,
\* has_list_marker, contains_words), CPS (ai_keywords), CSS (positive_count ..
\* negative_count), AM (the three *_hits and word_count).
\* 'What is a for-loop?'
P_forloop ==
    [word_count |-> 4, sentence_count |-> 1, context_markers |-> 1,
     concrete_score |-> 0, param_score |-> 0, organizers |-> 0,
     has_question |-> TRUE, clarity_indicators |-> 0,
     style |-> [formal |-> 0, informal |-> 0, direct |-> 0, narrative |-> 0, data_driven |-> 0],
     has_goals |-> FALSE, expectation_words |-> {},
     user_keywords |-> <<1, 0, 0, 0, 0>>, comfortable_count |-> 0,
     uncomfortable_count |-> 0, uip_keywords |-> <<0, 0, 0>>]

\* "Let's build a budget model together. What do you think about our first steps?
\* I need your input because I am curious and ready to collaborate."
P_cocreate ==
    [word_count |-> 26, sentence_count |-> 3, context_markers |-> 2,
     concrete_score |-> 0, param_score |-> 1, organizers |-> 2,
     has_question |-> TRUE, clarity_indicators |-> 0,
     style |-> [formal |-> 0, informal |-> 1, direct |-> 0, narrative |-> 3, data_driven |-> 0],
     has_goals |-> TRUE, expectation_words |-> {},
     user_keywords |-> <<0, 0, 1, 6, 0>>, comfortable_count |-> 2,
     uncomfortable_count |-> 0, uip_keywords |-> <<0, 1, 6>>]

\* 'Please define the exact process and list specifically the steps, step by
\* step, for the detailed time and budget analysis. I want a brief summary first,
\* then examples.'
P_precise ==
    [word_count |-> 28, sentence_count |-> 2, context_markers |-> 1,
     concrete_score |-> 3, param_score |-> 2, organizers |-> 3,
     has_question |-> FALSE, clarity_indicators |-> 2,
     style |-> [formal |-> 1, informal |-> 0, direct |-> 0, narrative |-> 3, data_driven |-> 1],
     has_goals |-> TRUE,
     expectation_words |-> {"list", "summary", "detailed", "brief", "step by step", "example", "define"},
     user_keywords |-> <<1, 1, 2, 0, 0>>, comfortable_count |-> 0,
     uncomfortable_count |-> 0, uip_keywords |-> <<4, 0, 0>>]

\* 'How does this fit the big picture? I am confused and frustrated: give me a
\* framework or a model of the whole system, with options and a concept map.'
P_strategic ==
    [word_count |-> 29, sentence_count |-> 2, context_markers |-> 0,
     concrete_score |-> 0, param_score |-> 0, organizers |-> 0,
     has_question |-> TRUE, clarity_indicators |-> 0,
     style |-> [formal |-> 0, informal |-> 0, direct |-> 0, narrative |-> 2, data_driven |-> 0],
     has_goals |-> FALSE, expectation_words |-> {},
     user_keywords |-> <<1, 1, 0, 0, 0>>, comfortable_count |-> 0,
     uncomfortable_count |-> 2, uip_keywords |-> <<0, 7, 0>>]

\* 'A for-loop repeats a block of code.'
R_plain ==
    [word_count |-> 7, boundary_count |-> 0, analogy_count |-> 0,
     hypothesis_count |-> 0, multi_paragraph |-> FALSE, seq_count |-> 0,
     list_count |-> 0, has_headings |-> FALSE, has_elements |-> FALSE,
     collab_count |-> 0, question_count |-> 0, pause_count |-> 0,
     variation_ok |-> FALSE,
     style |-> [formal |-> 0, informal |-> 0, direct |-> 0, narrative |-> 1, data_driven |-> 0],
     goal_ack |-> FALSE, has_list_marker |-> FALSE, contains_words |-> {},
     ai_keywords |-> <<0, 0, 0, 0, 0>>, positive_count |-> 0,
     collaborative_count |-> 0, empowerment_count |-> 0, negative_count |-> 0,
     structured_hits |-> 0, interactive_hits |-> 0, framework_hits |-> 0]

\* "Let's work on this together. We can start with a framework, like a map of the
\* budget.\n\n1. First, list the income.\n2. Next, list the costs.\n- Then
\* compare them.\n\nDoes this make sense? What do you think? Your thoughts and
\* your input are welcome: we collaborate, and you can adjust it."
R_collab ==
    [word_count |-> 53, boundary_count |-> 0, analogy_count |-> 1,
     hypothesis_count |-> 0, multi_paragraph |-> TRUE, seq_count |-> 3,
     list_count |-> 3, has_headings |-> FALSE, has_elements |-> FALSE,
     collab_count |-> 8, question_count |-> 2, pause_count |-> 0,
     variation_ok |-> FALSE,
     style |-> [formal |-> 0, informal |-> 1, direct |-> 3, narrative |-> 2, data_driven |-> 0],
     goal_ack |-> FALSE, has_list_marker |-> TRUE,
     contains_words |-> {"list", "compare"}, ai_keywords |-> <<0, 0, 0, 3, 0>>,
     positive_count |-> 3, collaborative_count |-> 5, empowerment_count |-> 1,
     negative_count |-> 0, structured_hits |-> 4, interactive_hits |-> 3,
     framework_hits |-> 2]

\* 'Summary: this is about loops, not about recursion. Think of it as a carousel.
\* If the list is empty, then the body never runs. Suppose the list has three
\* items. For instance, step by step, the process involves an iterator, similar
\* to a cursor.\n\nObviously, it generalizes to other contexts and can be applied
\* to future applications.'
R_anchors ==
    [word_count |-> 57, boundary_count |-> 2, analogy_count |-> 2,
     hypothesis_count |-> 2, multi_paragraph |-> TRUE, seq_count |-> 2,
     list_count |-> 0, has_headings |-> TRUE, has_elements |-> TRUE,
     collab_count |-> 0, question_count |-> 0, pause_count |-> 0,
     variation_ok |-> TRUE,
     style |-> [formal |-> 1, informal |-> 0, direct |-> 1, narrative |-> 6, data_driven |-> 0],
     goal_ack |-> FALSE, has_list_marker |-> FALSE,
     contains_words |-> {"list", "summary", "step by step"},
     ai_keywords |-> <<0, 1, 2, 0, 4>>, positive_count |-> 0,
     collaborative_count |-> 0, empowerment_count |-> 2, negative_count |-> 1,
     structured_hits |-> 0, interactive_hits |-> 0, framework_hits |-> 1]

\* 'Clearly, this is basic knowledge. The loop repeats the body once for every
\* item of the sequence it is given. T ... (the sentence 24 times)'
R_long ==
    [word_count |-> 365, boundary_count |-> 0, analogy_count |-> 0,
     hypothesis_count |-> 0, multi_paragraph |-> FALSE, seq_count |-> 0,
     list_count |-> 0, has_headings |-> FALSE, has_elements |-> FALSE,
     collab_count |-> 0, question_count |-> 0, pause_count |-> 0,
     variation_ok |-> TRUE,
     style |-> [formal |-> 1, informal |-> 0, direct |-> 0, narrative |-> 25, data_driven |-> 0],
     goal_ack |-> FALSE, has_list_marker |-> FALSE, contains_words |-> {},
     ai_keywords |-> <<0, 0, 0, 0, 0>>, positive_count |-> 0,
     collaborative_count |-> 0, empowerment_count |-> 0, negative_count |-> 2,
     structured_hits |-> 0, interactive_hits |-> 0, framework_hits |-> 0]

\* '' (the empty text: the analyzers are total on it, and the handler
\* analyzes it only if its checks on the two texts are taken away)
P_empty ==
    [word_count |-> 0, sentence_count |-> 0, context_markers |-> 0,
     concrete_score |-> 0, param_score |-> 0, organizers |-> 0,
     has_question |-> FALSE, clarity_indicators |-> 0,
     style |-> [formal |-> 0, informal |-> 0, direct |-> 0, narrative |-> 0, data_driven |-> 0],
     has_goals |-> FALSE, expectation_words |-> {},
     user_keywords |-> <<0, 0, 0, 0, 0>>, comfortable_count |-> 0,
     uncomfortable_count |-> 0, uip_keywords |-> <<0, 0, 0>>]

R_empty ==
    [word_count |-> 0, boundary_count |-> 0, analogy_count |-> 0,
     hypothesis_count |-> 0, multi_paragraph |-> FALSE, seq_count |-> 0,
     list_count |-> 0, has_headings |-> FALSE, has_elements |-> FALSE,
     collab_count |-> 0, question_count |-> 0, pause_count |-> 0,
     variation_ok |-> FALSE,
     style |-> [formal |-> 0, informal |-> 0, direct |-> 0, narrative |-> 0, data_driven |-> 0],
     goal_ack |-> FALSE, has_list_marker |-> FALSE, contains_words |-> {},
     ai_keywords |-> <<0, 0, 0, 0, 0>>, positive_count |-> 0,
     collaborative_count |-> 0, empowerment_count |-> 0, negative_count |-> 0,
     structured_hits |-> 0, interactive_hits |-> 0, framework_hits |-> 0]


PromptIds == {"P_forloop", "P_cocreate", "P_precise", "P_strategic"}
ResponseIds == {"R_plain", "R_collab", "R_anchors", "R_long"}

Prompt(id) ==
    CASE id = "P_forloop" -> P_forloop
      [] id = "P_cocreate" -> P_cocreate
      [] id = "P_precise" -> P_precise
      [] id = "P_strategic" -> P_strategic
      [] id = "" -> P_empty

Response(id) ==
    CASE id = "R_plain" -> R_plain
      [] id = "R_collab" -> R_collab
      [] id = "R_anchors" -> R_anchors
      [] id = "R_long" -> R_long
      [] id = "" -> R_empty

\* ================================================================ app
\* src/app.py, analyze_interaction.
MISSING == "MISSING"    \* the key is not in the JSON body
Absent == 0 - 1         \* a number the reply does not carry

NUMBER == "NUMBER"      \* the key's value is a JSON number other than 0

\* data.get(key, '')
get(value) == IF value = MISSING THEN "" ELSE value

\* Whether the value is a string.  The handler does not test it: a number has
\* no split() and no lower(), so the first analyzer given one raises
\* AttributeError (src/dimensions/iai.py:42, src/dimensions/cai.py:53).
is_str(value) == value # NUMBER

\* Mutant: the prompt is never validated.
valid_prompt_any(user_prompt) == TRUE

\* if not user_prompt: ... 400
valid_prompt(user_prompt) == user_prompt # ""

\* Mutant: the response's absence is never noticed.
has_response_always(ai_response) == TRUE

\* if ai_response [and user_prompt]:
has_response(ai_response) == ai_response # ""

\* Mutant: the weights of IAI and CAI are exchanged.
Weights_swapped ==
    [iai |-> 20, cai |-> 25, pas |-> 20, sas |-> 15, cps |-> 10, css |-> 10]

\* Mutant: CSS is subtracted.
Weights_negative ==
    [iai |-> 25, cai |-> 20, pas |-> 20, sas |-> 15, cps |-> 10, css |-> 0 - 10]

\* The six weights of ri_score, in hundredths.
Weights == [iai |-> 25, cai |-> 20, pas |-> 20, sas |-> 15, cps |-> 10, css |-> 10]

\* The weighted sum of the six scores, over IAI_DEN * 100: the IAI score is
\* unrounded (over IAI_DEN), the others are in milli.
weighted_sum(s) ==
      s.iai * Weights.iai
    + (IAI_DEN \div 1000)
        * (s.cai * Weights.cai + s.pas * Weights.pas + s.sas * Weights.sas
           + s.cps * Weights.cps + s.css * Weights.css)

\* Mutant: the modulator is added to the weighted sum.
resonance_index_adds_am(s, am) ==
    RoundDiv((weighted_sum(s) + am * (IAI_DEN \div 10)) * 10, IAI_DEN)

\* ri_score = weighted sum * am_score, rounded to three decimals for the reply
\* (round(ri_score, 3)); am in milli, always a multiple of 0.1.
resonance_index(s, am) == RoundDiv(weighted_sum(s) * (am \div 100), IAI_DEN)

\* round(iai_result['iai_score'], 3)
round_iai(iai_score) == RoundDiv(iai_score * 1000, IAI_DEN)

\* conversation_history[:] = conversation_history[-10:]
WINDOW == 10

\* Mutant: conversation_history[-11:].
Truncate_off_by_one(history) == LastTurns(history, WINDOW + 1)

\* Mutant: conversation_history[:10], which keeps the oldest turns.
Truncate_keep_oldest(history) == SubSeq(history, 1, Min(Len(history), WINDOW))

Truncate(history) == LastTurns(history, WINDOW)

NoScores ==
    [iai |-> Absent, cai |-> Absent, pas |-> Absent,
     sas |-> Absent, cps |-> Absent, css |-> Absent]

ErrorReply(message) ==
    [status |-> 400, success |-> FALSE, error |-> message,
     resonance_index |-> Absent, alignment_modulator |-> Absent,
     uip_detected |-> "", uip_confidence |-> Absent,
     dimension_scores |-> NoScores,
     iai_score |-> Absent, achieved_level |-> Absent]

\* Mutant: building the reply raises, and the except answers 400 after the
\* handler has run to its end.
SuccessReply_raises(s, am, uip, achieved_level) == ErrorReply("exception")

\* The reply to a request that passed validation.  s: the scores entering
\* ri_score; iai_score: iai_details.iai_score, unrounded; achieved_level:
\* cps_details.achieved_level, Absent when CPS did not run.
SuccessReply(s, am, uip, achieved_level) ==
    [status |-> 200, success |-> TRUE, error |-> "",
     resonance_index |-> resonance_index(s, am),
     alignment_modulator |-> am,
     uip_detected |-> uip[1], uip_confidence |-> uip[2],
     dimension_scores |-> [iai |-> round_iai(s.iai), cai |-> s.cai, pas |-> s.pas,
                           sas |-> s.sas, cps |-> s.cps, css |-> s.css],
     iai_score |-> s.iai, achieved_level |-> achieved_level]

\* Mutant: SAS falls back to 0.0, as CAI and PAS do.
FallbackScores_sas_zero(iai_score) ==
    [iai |-> iai_score, cai |-> 0, pas |-> 0, sas |-> 0, cps |-> 500, css |-> 500]

\* The scores when the AI response is absent.
FallbackScores(iai_score) ==
    [iai |-> iai_score, cai |-> 0, pas |-> 0, sas |-> 500, cps |-> 500, css |-> 500]

FallbackAM == 10 * 100

FallbackUip == <<"precision_seeker", 500>>

\* Mutant: css_score is taken from the CPS result.
ExchangeScores_css_from_cps(f, g, cps_level) ==
    [iai |-> IAI_analyze(f), cai |-> CAI_analyze(g), pas |-> PAS_analyze(g),
     sas |-> SAS_analyze(f, g), cps |-> cps_score(cps_level),
     css |-> cps_score(cps_level)]

\* The scores of a full exchange; cps_level from CPS over the window.
ExchangeScores(f, g, cps_level) ==
    [iai |-> IAI_analyze(f), cai |-> CAI_analyze(g), pas |-> PAS_analyze(g),
     sas |-> SAS_analyze(f, g), cps |-> cps_score(cps_level),
     css |-> css_score(CSS_analyze(f, g))]

\* Mutant: the turn records the user's detected level, not the achieved one.
Turn_user_level(user_prompt, ai_response, cps_level) ==
    [user_prompt |-> user_prompt, ai_response |-> ai_response,
     cps_level |-> detect_user_level(Prompt(user_prompt))]

Turn(user_prompt, ai_response, cps_level) ==
    [user_prompt |-> user_prompt, ai_response |-> ai_response,
     cps_level |-> cps_level]

\* req: [json, user_prompt, ai_response]; json = FALSE is a request without a
\* JSON body, for which data.get raises and the handler's except answers 400.
\* The except also answers 400 when iai_analyzer.analyze (src/app.py:51) or
\* cai_analyzer.analyze (55) raises on a value that is not a string; both
\* come before the append of line 87.
analyze_interaction(req) ==
    LET user_prompt == get(req.user_prompt)
        ai_response == get(req.ai_response)
    IN  /\ request' = req
        /\ UNCHANGED <<args, result, threads>>
        /\ IF ~req.json
           THEN /\ reply' = ErrorReply("exception")
                /\ UNCHANGED <<conversation_history, log>>
           ELSE IF ~valid_prompt(user_prompt)
           THEN /\ reply' = ErrorReply("User prompt is required")
                /\ UNCHANGED <<conversation_history, log>>
           ELSE IF ~is_str(user_prompt)
           THEN /\ reply' = ErrorReply("exception")
                /\ UNCHANGED <<conversation_history, log>>
           ELSE IF ~has_response(ai_response)
           THEN /\ reply' = SuccessReply(FallbackScores(IAI_analyze(Prompt(user_prompt))),
                                         FallbackAM, FallbackUip, Absent)
                /\ UNCHANGED <<conversation_history, log>>
           ELSE IF ~is_str(ai_response)
           THEN /\ reply' = ErrorReply("exception")
                /\ UNCHANGED <<conversation_history, log>>
           ELSE LET f == Prompt(user_prompt)
                    g == Response(ai_response)
                    cps_level == CPS_analyze(f, g, conversation_history)
                    turn == Turn(user_prompt, ai_response, cps_level)
                IN  /\ conversation_history' =
                           Truncate(Append(conversation_history, turn))
                    /\ log' = Append(log, turn)
                    /\ reply' = SuccessReply(ExchangeScores(f, g, cps_level),
                                             AM_analyze(f, g), detect_uip(f),
                                             cps_level)

NoRequest == [json |-> FALSE, user_prompt |-> MISSING, ai_response |-> MISSING]

NoReply ==
    [status |-> 0, success |-> FALSE, error |-> "",
     resonance_index |-> Absent, alignment_modulator |-> Absent,
     uip_detected |-> "", uip_confidence |-> Absent,
     dimension_scores |-> NoScores,
     iai_score |-> Absent, achieved_level |-> Absent]

NoArgs == [op |-> "none"]
NoResult == [op |-> "none"]
NoThreads == <<>>

Init ==
    /\ conversation_history = <<>>
    /\ request = NoRequest
    /\ reply = NoReply
    /\ log = <<>>
    /\ args = NoArgs
    /\ result = NoResult
    /\ threads = NoThreads

IsFullExchange(req) ==
    /\ req.json
    /\ get(req.user_prompt) # "" /\ is_str(get(req.user_prompt))
    /\ get(req.ai_response) # "" /\ is_str(get(req.ai_response))

JsonRequests(prompts, responses) ==
    [json : {TRUE}, user_prompt : prompts \cup {MISSING, ""},
     ai_response : responses \cup {MISSING, ""}]

\* Spec: every sample prompt with every sample response, short conversations.
Requests == JsonRequests(PromptIds, ResponseIds) \cup {NoRequest}

Next ==
    \E req \in Requests :
        /\ IsFullExchange(req) => Len(log) < MaxTurns
        /\ analyze_interaction(req)

Spec == Init /\ [][Next]_vars

\* SpecLong: two exchanges, conversations long enough to fill the window.
LongRequests ==
    {[json |-> TRUE, user_prompt |-> "P_forloop", ai_response |-> "R_plain"],
     [json |-> TRUE, user_prompt |-> "P_precise", ai_response |-> "R_plain"],
     [json |-> TRUE, user_prompt |-> "P_precise", ai_response |-> MISSING],
     [json |-> TRUE, user_prompt |-> "", ai_response |-> "R_plain"],
     NoRequest}

NextLong ==
    \E req \in LongRequests :
        /\ IsFullExchange(req) => Len(log) < MaxExchanges
        /\ analyze_interaction(req)

SpecLong == Init /\ [][NextLong]_vars

\* SpecAnyJson: requests whose prompt and response are strings, numbers, empty
\* or missing, in short conversations.
MaxAnyJson == 3

AnyJsonRequests ==
    JsonRequests({"P_forloop", "P_precise", NUMBER}, {"R_plain", NUMBER})
        \cup {NoRequest}

NextAnyJson ==
    \E req \in AnyJsonRequests :
        /\ IsFullExchange(req) => Len(log) < MaxAnyJson
        /\ analyze_interaction(req)

SpecAnyJson == Init /\ [][NextAnyJson]_vars

\* SpecProgress: conversations of full exchanges whose base levels are 1, 2, 3,
\* 4 and 5.
MaxProgress == 4

ProgressRequests ==
    {[json |-> TRUE, user_prompt |-> "P_forloop", ai_response |-> "R_plain"],
     [json |-> TRUE, user_prompt |-> "P_strategic", ai_response |-> "R_plain"],
     [json |-> TRUE, user_prompt |-> "P_precise", ai_response |-> "R_plain"],
     [json |-> TRUE, user_prompt |-> "P_cocreate", ai_response |-> "R_plain"],
     [json |-> TRUE, user_prompt |-> "P_forloop", ai_response |-> "R_anchors"]}

NextProgress ==
    \E req \in ProgressRequests :
        /\ Len(log) < MaxProgress
        /\ analyze_interaction(req)

SpecProgress == Init /\ [][NextProgress]_vars

\* SpecConcurrent: full exchanges served by concurrent threads of the server
\* against the one conversation_history.  The handler takes no lock; a thread
\* can be preempted between any two of the handler's accesses to the list:
\* the read by cps_analyzer.analyze (src/app.py:83), the append (87-91), the
\* slice conversation_history[-10:] and the slice assignment (93).
NumThreads == 2
MaxConcurrent == 3

ThreadIds == 1..NumThreads

Idle == [pc |-> "idle", req |-> NoRequest, seen |-> <<>>, cps_level |-> Absent,
         kept |-> <<>>]

ConcurrentRequests ==
    {[json |-> TRUE, user_prompt |-> "P_forloop", ai_response |-> "R_plain"],
     [json |-> TRUE, user_prompt |-> "P_precise", ai_response |-> "R_plain"]}

InFlight == {t \in ThreadIds : threads[t].pc \in {"read", "append"}}

receive(t, req) ==
    /\ threads[t].pc = "idle"
    /\ Len(log) + Cardinality(InFlight) < MaxConcurrent
    /\ threads' = [threads EXCEPT ![t] = [Idle EXCEPT !.pc = "read", !.req = req]]
    /\ request' = req
    /\ UNCHANGED <<conversation_history, reply, log, args, result>>

\* cps_analyzer.analyze(user_prompt, ai_response, conversation_history)
read_window(t) ==
    /\ threads[t].pc = "read"
    /\ threads' = [threads EXCEPT
           ![t].pc = "append",
           ![t].seen = conversation_history,
           ![t].cps_level = CPS_analyze(Prompt(threads[t].req.user_prompt),
                                        Response(threads[t].req.ai_response),
                                        conversation_history)]
    /\ UNCHANGED <<conversation_history, request, reply, log, args, result>>

\* conversation_history.append({...})
append_turn(t) ==
    /\ threads[t].pc = "append"
    /\ LET turn == Turn(threads[t].req.user_prompt, threads[t].req.ai_response,
                        threads[t].cps_level)
       IN  /\ conversation_history' = Append(conversation_history, turn)
           /\ log' = Append(log, turn)
    /\ threads' = [threads EXCEPT ![t].pc = "slice"]
    /\ UNCHANGED <<request, reply, args, result>>

\* the right-hand side conversation_history[-10:]
slice_window(t) ==
    /\ threads[t].pc = "slice"
    /\ threads' = [threads EXCEPT ![t].pc = "assign",
                                  ![t].kept = LastTurns(conversation_history, WINDOW)]
    /\ UNCHANGED <<conversation_history, request, reply, log, args, result>>

\* conversation_history[:] = ...
assign_window(t) ==
    /\ threads[t].pc = "assign"
    /\ conversation_history' = threads[t].kept
    /\ threads' = [threads EXCEPT ![t].pc = "respond"]
    /\ UNCHANGED <<request, reply, log, args, result>>

respond(t) ==
    /\ threads[t].pc = "respond"
    /\ LET f == Prompt(threads[t].req.user_prompt)
           g == Response(threads[t].req.ai_response)
       IN  reply' = SuccessReply(ExchangeScores(f, g, threads[t].cps_level),
                                 AM_analyze(f, g), detect_uip(f),
                                 threads[t].cps_level)
    /\ threads' = [threads EXCEPT ![t] = Idle]
    /\ UNCHANGED <<conversation_history, request, log, args, result>>

InitConcurrent ==
    /\ conversation_history = <<>>
    /\ request = NoRequest
    /\ reply = NoReply
    /\ log = <<>>
    /\ args = NoArgs
    /\ result = NoResult
    /\ threads = [t \in ThreadIds |-> Idle]

NextConcurrent ==
    \E t \in ThreadIds :
        \/ \E req \in ConcurrentRequests : receive(t, req)
        \/ read_window(t)
        \/ append_turn(t)
        \/ slice_window(t)
        \/ assign_window(t)
        \/ respond(t)

SpecConcurrent == InitConcurrent /\ [][NextConcurrent]_vars

\* SpecAggregate: the aggregation of src/app.py:128-139 applied on its own to a
\* score vector and to the same vector with one score changed.
ScoreNames == {"iai", "cai", "pas", "sas", "cps", "css"}

AggregateVectors ==
    [iai : {0, 176800, IAI_DEN}, cai : {0, 1000}, pas : {0, 700},
     sas : {500, 1000}, cps : {200, 1000}, css : {200, 1000}]

ChangedValues(name) ==
    IF name = "iai" THEN {0, 1, 176800, 176801, IAI_DEN}
    ELSE {0, 1, 499, 500, 1000}

AggregateArgs ==
    {[op |-> "aggregate", s |-> s, name |-> name, value |-> value, am |-> am] :
        s \in AggregateVectors, name \in ScoreNames,
        value \in UNION {ChangedValues(n) : n \in ScoreNames},
        am \in {800, 1000, 1200}}

InitAggregate ==
    /\ conversation_history = <<>>
    /\ request = NoRequest
    /\ reply = NoReply
    /\ log = <<>>
    /\ args \in {a \in AggregateArgs : a.value \in ChangedValues(a.name)}
    /\ result = NoResult
    /\ threads = NoThreads

aggregate ==
    /\ result = NoResult
    /\ result' = [op |-> "aggregate",
                  before |-> resonance_index(args.s, args.am),
                  after |-> resonance_index([args.s EXCEPT ![args.name] = args.value],
                                            args.am)]
    /\ UNCHANGED <<conversation_history, request, reply, log, args, threads>>

NextAggregate == aggregate

SpecAggregate == InitAggregate /\ [][NextAggregate]_vars

\* SpecAnalyzers: functions of the analyzers applied on their own to the counts
\* they extract from a text.  Each ...Args below draws `args` for one of them.
MaxAnchors == 2

AnchorFamilies == {"boundary_count", "analogy_count", "hypothesis_count"}

\* The anchor counts of a response and the family that gets one anchor more.
CaiArgs ==
    \E b \in 0..MaxAnchors, a \in 0..MaxAnchors, h \in 0..MaxAnchors,
       family \in AnchorFamilies :
        args = [op |-> "cai",
                g |-> [boundary_count |-> b, analogy_count |-> a,
                       hypothesis_count |-> h],
                family |-> family]

apply_cai ==
    /\ args.op = "cai" /\ result = NoResult
    /\ result' = [op |-> "cai",
                  score |-> CAI_analyze(args.g),
                  more |-> CAI_analyze([args.g EXCEPT ![args.family] = @ + 1])]
    /\ UNCHANGED <<conversation_history, request, reply, log, args, threads>>

\* The anchor detection loop of CAIAnalyzer.analyze at the grain of the
\* templates.  A template is <<family, position in the family's list>>.
\* `matching`: the templates that find one valid anchor in the text;
\* `malformed`: the templates of the table whose evaluation raises re.error.
\* The tables of src/dimensions/cai.py:12-34 hold no malformed template; the
\* table is an attribute of the analyzer and is drawn here as an input.
TemplatesPerFamily == 5
MaxMatching == 2
MaxMalformed == 1

Templates == AnchorFamilies \X (1..TemplatesPerFamily)

SubsetsUpTo(S, n) == {T \in SUBSET S : Cardinality(T) <= n}

TemplateArgs ==
    \E matching \in SubsetsUpTo(Templates, MaxMatching),
       malformed \in SubsetsUpTo(Templates, MaxMalformed) :
        args = [op |-> "templates", matching |-> matching, malformed |-> malformed]

\* Mutant: `break` for `continue`: a malformed template ends its family's loop.
detect_anchors_break(family, matching, malformed) ==
    Cardinality({k \in 1..TemplatesPerFamily :
                    /\ <<family, k>> \in matching
                    /\ \A j \in 1..k : <<family, j>> \notin malformed})

\* len(anchors_found[family]): re.error is caught per template and the loop
\* continues with the next one.
detect_anchors(family, matching, malformed) ==
    Cardinality({k \in 1..TemplatesPerFamily :
                    <<family, k>> \in matching /\ <<family, k>> \notin malformed})

apply_templates ==
    /\ args.op = "templates" /\ result = NoResult
    /\ LET g == [boundary_count |->
                     detect_anchors("boundary_count", args.matching, args.malformed),
                 analogy_count |->
                     detect_anchors("analogy_count", args.matching, args.malformed),
                 hypothesis_count |->
                     detect_anchors("hypothesis_count", args.matching, args.malformed)]
       IN  result' = [op |-> "templates", aborted |-> FALSE, g |-> g,
                      score |-> CAI_analyze(g)]
    /\ UNCHANGED <<conversation_history, request, reply, log, args, threads>>

\* The collaborative phrases of a response: collab_count is the number of
\* listed phrases that occur in the lowercased text, each counted once.  The
\* test is a substring test, so a text with "your thoughts" also has "our".
MaxPhrases == 4

collaboration_phrases ==
    {"let's", "we can", "we should", "our", "together", "collaborate",
     "what do you think", "how about", "your thoughts", "partner",
     "does this make sense", "shall we", "would you like", "build with"}

CollaborationArgs ==
    \E present \in {T \in SubsetsUpTo(collaboration_phrases, MaxPhrases) :
                        "your thoughts" \in T => "our" \in T} :
        args = [op |-> "collaboration", present |-> present]

apply_collaboration ==
    /\ args.op = "collaboration" /\ result = NoResult
    /\ result' = [op |-> "collaboration",
                  score |-> analyze_collaboration(
                                [collab_count |-> Cardinality(args.present)])]
    /\ UNCHANGED <<conversation_history, request, reply, log, args, threads>>

\* The counts _analyze_chunking extracts: whether the text has a blank-line
\* break, how many of the 6 sequencing words occur, how many list markers.
NumSequencingWords == 6
MaxListMarkers == 5

ChunkingArgs ==
    \E p \in BOOLEAN, sq \in 0..NumSequencingWords, l \in 0..MaxListMarkers :
        args = [op |-> "chunking",
                g |-> [multi_paragraph |-> p, seq_count |-> sq, list_count |-> l]]

apply_chunking ==
    /\ args.op = "chunking" /\ result = NoResult
    /\ result' = [op |-> "chunking", score |-> analyze_chunking(args.g)]
    /\ UNCHANGED <<conversation_history, request, reply, log, args, threads>>

\* The keyword matches of a prompt per intent category, in the order of
\* uip_patterns.
MaxKeywords == 4

UipArgs ==
    \E p \in 0..MaxKeywords, e \in 0..MaxKeywords, c \in 0..MaxKeywords :
        args = [op |-> "uip", f |-> [uip_keywords |-> <<p, e, c>>]]

apply_uip ==
    /\ args.op = "uip" /\ result = NoResult
    /\ result' = [op |-> "uip", detected |-> detect_uip(args.f)[1],
                  confidence |-> detect_uip(args.f)[2]]
    /\ UNCHANGED <<conversation_history, request, reply, log, args, threads>>

\* Two windows that end with the same recorded levels (`recent`, at most 3
\* turns) and differ in the texts of their turns and, when `recent` has 3
\* turns, in the turns before them.
MaxOlder == 2

SeqsUpTo(S, n) == UNION {[1..k -> S] : k \in 0..n}

Turns(levels, user_prompt, ai_response) ==
    [i \in 1..Len(levels) |-> Turn(user_prompt, ai_response, levels[i])]

CpsArgs ==
    \E u \in 1..5, a \in 1..5, recent \in SeqsUpTo({2, 4}, 3) \ {<<>>} :
        \E older1 \in (IF Len(recent) < 3 THEN {<<>>} ELSE SeqsUpTo({1, 5}, MaxOlder)),
           older2 \in (IF Len(recent) < 3 THEN {<<>>} ELSE SeqsUpTo({1, 5}, MaxOlder)) :
            args = [op |-> "cps", user_level |-> u, ai_level |-> a,
                    recent |-> recent, older1 |-> older1, older2 |-> older2]

apply_cps ==
    /\ args.op = "cps" /\ result = NoResult
    /\ result' =
           [op |-> "cps",
            first |-> determine_achieved_level(args.user_level, args.ai_level,
                          Turns(args.older1 \o args.recent, "P_forloop", "R_plain")),
            second |-> determine_achieved_level(args.user_level, args.ai_level,
                          Turns(args.older2 \o args.recent, "P_precise", "R_long"))]
    /\ UNCHANGED <<conversation_history, request, reply, log, args, threads>>

\* The AI keywords of each level found in a response (src/dimensions/cps.py:
\* 141-147): at most MaxAiMatches per level.
MaxAiMatches == 1

AiLevelArgs ==
    \E ai_keywords \in [1..5 -> 0..MaxAiMatches] :
        args = [op |-> "ai_level", g |-> [ai_keywords |-> ai_keywords]]

apply_ai_level ==
    /\ args.op = "ai_level" /\ result = NoResult
    /\ result' = [op |-> "ai_level", ai_level |-> detect_ai_level(args.g)]
    /\ UNCHANGED <<conversation_history, request, reply, log, args, threads>>

\* The user keywords of each level found in a prompt (src/dimensions/cps.py:
\* 121-125): at most MaxUserMatches per level.
MaxUserMatches == 3

UserLevelArgs ==
    \E user_keywords \in [1..5 -> 0..MaxUserMatches] :
        args = [op |-> "user_level", f |-> [user_keywords |-> user_keywords]]

apply_user_level ==
    /\ args.op = "user_level" /\ result = NoResult
    /\ result' = [op |-> "user_level", user_level |-> detect_user_level(args.f)]
    /\ UNCHANGED <<conversation_history, request, reply, log, args, threads>>

\* The detected intent and what _analyze_ai_style extracts from a response:
\* its word count and how many patterns of each style's list it contains
\* (src/dimensions/am.py:35, 39, 43).
NumStructuredPatterns == 5
NumInteractivePatterns == 3
NumFrameworkPatterns == 4

AmWordCounts == {100, 151, 301}

\* The scores of an exchange that has 1.0 in each of the six dimensions.
TopScores ==
    [iai |-> IAI_DEN, cai |-> 1000, pas |-> 1000, sas |-> 1000, cps |-> 1000,
     css |-> 1000]

AmArgs ==
    \E i \in 1..Len(UipNames), w \in AmWordCounts,
       st \in 0..NumStructuredPatterns, it \in 0..NumInteractivePatterns,
       fr \in 0..NumFrameworkPatterns :
        args = [op |-> "am", detected_uip |-> UipNames[i],
                g |-> [word_count |-> w, structured_hits |-> st,
                       interactive_hits |-> it, framework_hits |-> fr]]

apply_am ==
    /\ args.op = "am" /\ result = NoResult
    /\ LET ai_style == analyze_ai_style(args.g)
           am_score == calculate_am(args.detected_uip, ai_style, args.g.word_count)
       IN  result' = [op |-> "am", ai_style |-> ai_style,
                      style_sum |-> preferred_style_sum(args.detected_uip, ai_style),
                      am_score |-> am_score,
                      ri_top |-> resonance_index(TopScores, am_score)]
    /\ UNCHANGED <<conversation_history, request, reply, log, args, threads>>

\* What _calculate_expectation_sync extracts: the expectation words found in
\* the prompt (at most MaxExpectations of the 13) and, of the response, whether
\* it has a list marker, its word count and which of those words it contains.
MaxExpectations == 2

expectation_words ==
    {"list", "bullet", "summary", "detailed", "brief", "simple", "complex",
     "step by step", "example", "explain", "define", "compare", "analyze"}

ExpectationWordCounts == {100, 250}

ExpectationArgs ==
    \E present \in SubsetsUpTo(expectation_words, MaxExpectations),
       marker \in BOOLEAN, w \in ExpectationWordCounts :
        \E contained \in SUBSET present :
            args = [op |-> "expectation",
                    f |-> [expectation_words |-> present],
                    g |-> [has_list_marker |-> marker, word_count |-> w,
                           contains_words |-> contained]]

apply_expectation ==
    /\ args.op = "expectation" /\ result = NoResult
    /\ result' = [op |-> "expectation",
                  score |-> calculate_expectation_sync(args.f, args.g)]
    /\ UNCHANGED <<conversation_history, request, reply, log, args, threads>>

\* What the CSS analyzer extracts: the signals of each list found in the
\* response and in the prompt (at most MaxSignals of a list that raises a
\* sub-score, MaxPenalties of one that lowers it), the two lengths in words,
\* and the rounding of the float sum (see determine_css_level).
MaxSignals == 2
MaxPenalties == 4

\* <<user_prompt_length, response_length>>: ratio 1, above 5, below 0.5.
CssLengths == {<<10, 10>>, <<10, 60>>, <<10, 4>>}

CssArgs ==
    \E p \in 0..MaxSignals, c \in 0..MaxSignals, e \in 0..MaxSignals,
       n \in 0..MaxPenalties, cc \in 0..MaxSignals, uc \in 0..MaxPenalties,
       lengths \in CssLengths, below \in BOOLEAN :
        args = [op |-> "css",
                f |-> [comfortable_count |-> cc, uncomfortable_count |-> uc,
                       word_count |-> lengths[1]],
                g |-> [positive_count |-> p, collaborative_count |-> c,
                       empowerment_count |-> e, negative_count |-> n,
                       word_count |-> lengths[2]],
                below |-> below]

\* `raised`: the levels of the same exchange with one sub-score higher (one
\* more positive signal, one more comfort signal, or a response of less than
\* half the prompt's length), whatever the rounding of their sums.
apply_css ==
    /\ args.op = "css" /\ result = NoResult
    /\ LET s == analyze_ai_safety(args.g)
           u == analyze_user_comfort(args.f)
           c == analyze_context(args.g.word_count, args.f.word_count)
           s_more == analyze_ai_safety([args.g EXCEPT !.positive_count = @ + 1])
           u_more == analyze_user_comfort([args.f EXCEPT !.comfortable_count = @ + 1])
           c_more == analyze_context(args.f.word_count \div 2 - 1, args.f.word_count)
           higher == {t \in {<<s_more, u, c>>, <<s, u_more, c>>, <<s, u, c_more>>} :
                         t # <<s, u, c>>}
           css_level == determine_css_level(s, u, c, args.below)
       IN  result' = [op |-> "css", ai_safety |-> s, user_comfort |-> u,
                      context |-> c, css_level |-> css_level,
                      css_score |-> css_score(css_level),
                      raised |-> {determine_css_level(t[1], t[2], t[3], b) :
                                      t \in higher, b \in BOOLEAN}]
    /\ UNCHANGED <<conversation_history, request, reply, log, args, threads>>

AnalyzerArgs ==
    \/ CaiArgs
    \/ TemplateArgs
    \/ CollaborationArgs
    \/ ChunkingArgs
    \/ UipArgs
    \/ CpsArgs
    \/ AiLevelArgs
    \/ UserLevelArgs
    \/ AmArgs
    \/ ExpectationArgs
    \/ CssArgs

InitAnalyzers ==
    /\ conversation_history = <<>>
    /\ request = NoRequest
    /\ reply = NoReply
    /\ log = <<>>
    /\ AnalyzerArgs
    /\ result = NoResult
    /\ threads = NoThreads

NextAnalyzers ==
    \/ apply_cai
    \/ apply_templates
    \/ apply_collaboration
    \/ apply_chunking
    \/ apply_uip
    \/ apply_cps
    \/ apply_ai_level
    \/ apply_user_level
    \/ apply_am
    \/ apply_expectation
    \/ apply_css

SpecAnalyzers == InitAnalyzers /\ [][NextAnalyzers]_vars

\* ================================================================ claims

\* C1: after any sequence of analyze requests (with or without a response,
\* valid or invalid) the conversation window holds at most 10 entries.
C1_WindowAtMostTen == Len(conversation_history) <= 10

\* Eleven or more turns were appended and the window holds exactly 10.
C1_Witness == Len(log) >= 11 /\ Len(conversation_history) = 10

\* C2: eviction is FIFO and order-preserving: after n full exchanges from an
\* empty window, the window is the last min(n, 10) appended turns, in the order
\* of submission.
C2_WindowIsLogSuffix ==
    LET n == Len(log)
        kept == IF n <= 10 THEN n ELSE 10
    IN  /\ Len(conversation_history) = kept
        /\ \A i \in 1..kept : conversation_history[i] = log[n - kept + i]

\* After 11 appends the first turn is gone (no turn of the window equals it)
\* and turns 2..11 remain in order.
C2_Witness ==
    /\ Len(log) = 11
    /\ \A i \in 1..10 : conversation_history[i] = log[i + 1]
    /\ \A i \in 1..10 : conversation_history[i] # log[1]

\* C3: a successfully analyzed full exchange appends exactly one turn at the
\* end of the window; the level it records is the achieved CPS level of the
\* reply to that exchange, a value in 1..5; the turns before it are the old
\* window, unmodified, less what was evicted from the front.
C3_AppendsOneTurn ==
    [][ (IsFullExchange(request') /\ reply'.success) =>
            LET old == conversation_history
                new == conversation_history'
                n == Len(new)
            IN  /\ n = (IF Len(old) < 10 THEN Len(old) + 1 ELSE 10)
                /\ new[n].user_prompt = request'.user_prompt
                /\ new[n].ai_response = request'.ai_response
                /\ new[n].cps_level = reply'.achieved_level
                /\ new[n].cps_level \in 1..5
                /\ \A i \in 1..(n - 1) : new[i] = old[Len(old) - (n - 1) + i]
      ]_vars

\* A full exchange on a full window, whose turn records a level raised by the
\* progression bonus.
C3_Witness ==
    /\ IsFullExchange(request) /\ reply.success
    /\ Len(log) >= 11
    /\ reply.achieved_level = 4
    /\ conversation_history[Len(conversation_history)].cps_level = 4

\* The last request had a non-empty prompt and no AI response.
NoResponseCase ==
    /\ reply.status # 0
    /\ request.json
    /\ get(request.user_prompt) # ""
    /\ get(request.ai_response) = ""

FallbackConstants ==
    /\ reply.success
    /\ reply.dimension_scores.cai = 0
    /\ reply.dimension_scores.pas = 0
    /\ reply.dimension_scores.sas = 500
    /\ reply.dimension_scores.cps = 500
    /\ reply.dimension_scores.css = 500
    /\ reply.alignment_modulator = 1000
    /\ reply.uip_detected = "precision_seeker"
    /\ reply.uip_confidence = 500

\* C4 as stated: with no AI response the reply carries the fallback constants
\* and resonance_index = 0.25 * IAI(prompt) + 0.175 (both sides times
\* IAI_DEN / 10), whatever the window holds.
C4_Original ==
    NoResponseCase =>
        /\ FallbackConstants
        /\ reply.resonance_index * (IAI_DEN \div 10)
               = 25 * reply.iai_score + 175 * (IAI_DEN \div 10)

\* C4 as amended: the same, with resonance_index the thousandth nearest to
\* 0.25 * IAI(prompt) + 0.175.
C4_FallbackRounded ==
    NoResponseCase =>
        /\ FallbackConstants
        /\ 2 * Abs(reply.resonance_index * (IAI_DEN \div 10)
                   - (25 * reply.iai_score + 175 * (IAI_DEN \div 10)))
               <= IAI_DEN \div 10

\* "What is a for-loop?" without a response, asked when the window holds turns.
C4_Witness ==
    /\ NoResponseCase
    /\ request.user_prompt = "P_forloop"
    /\ Len(conversation_history) = 2
    /\ reply.resonance_index = 232

\* C5: a request whose AI response is absent leaves the window unchanged.
C5_NoResponseKeepsWindow ==
    [][ get(request'.ai_response) = "" =>
            conversation_history' = conversation_history ]_vars

\* A request without a response answered while the window is full.
C5_Witness ==
    /\ NoResponseCase /\ reply.success
    /\ Len(conversation_history) = 10

\* C6: a request whose prompt is missing or empty is answered 400 with no
\* score at all and leaves the window as it was, response or no response; when
\* the request has a JSON body the error is the validation error.
C6_EmptyPromptRejected ==
    [][ get(request'.user_prompt) = "" =>
            /\ reply'.status = 400
            /\ ~reply'.success
            /\ request'.json => reply'.error = "User prompt is required"
            /\ reply'.resonance_index = Absent
            /\ reply'.alignment_modulator = Absent
            /\ reply'.dimension_scores = NoScores
            /\ reply'.iai_score = Absent
            /\ reply'.achieved_level = Absent
            /\ conversation_history' = conversation_history ]_vars

\* An empty prompt sent with a response, rejected while the window holds turns.
C6_Witness ==
    /\ request.json
    /\ request.user_prompt \in {MISSING, ""}
    /\ request.ai_response = "R_collab"
    /\ reply.status = 400
    /\ Len(conversation_history) = 2

\* The weighted sum of the reported scores times the reported modulator, in
\* units of 10^-8.
ReportedFormula ==
    (  25 * reply.dimension_scores.iai + 20 * reply.dimension_scores.cai
     + 20 * reply.dimension_scores.pas + 15 * reply.dimension_scores.sas
     + 10 * reply.dimension_scores.cps + 10 * reply.dimension_scores.css)
    * reply.alignment_modulator

\* C7 as stated: resonance_index equals the weighted sum of the reported
\* scores times the reported AM, the six weights summing to 1.0.
C7_Original ==
    reply.success =>
        /\ 25 + 20 + 20 + 15 + 10 + 10 = 100
        /\ reply.resonance_index * 100000 = ReportedFormula

\* C7 as amended: resonance_index is the thousandth nearest to the weighted
\* sum times AM, with the weights .25 .20 .20 .15 .10 .10 (summing to 1.0),
\* the analyzer's unrounded IAI score, of which the reported iai is the nearest
\* thousandth, and the reported CAI, PAS, SAS, CPS, CSS and AM.
C7_RoundedFormula ==
    reply.success =>
        LET d == reply.dimension_scores
            exact == (25 * reply.iai_score
                      + (IAI_DEN \div 1000)
                          * (20 * d.cai + 20 * d.pas + 15 * d.sas
                             + 10 * d.cps + 10 * d.css))
                     * (reply.alignment_modulator \div 100)
        IN  /\ Weights.iai + Weights.cai + Weights.pas + Weights.sas
                   + Weights.cps + Weights.css = 100
            /\ reply.alignment_modulator % 100 = 0
            /\ 2 * Abs(reply.resonance_index * IAI_DEN - exact) <= IAI_DEN
            /\ 2 * Abs(d.iai * (IAI_DEN \div 1000) - reply.iai_score)
                   <= IAI_DEN \div 1000

\* A full exchange whose resonance_index is modulated (AM below 1.0).
C7_Witness ==
    /\ reply.success
    /\ IsFullExchange(request)
    /\ reply.alignment_modulator = 900
    /\ reply.resonance_index = 572

\* C8: for every successful analysis, after any sequence of prior requests,
\* the resonance_index lies in [0, 1.2].
C8_ResonanceIndexInRange ==
    reply.success => (reply.resonance_index >= 0 /\ reply.resonance_index <= 1200)

\* The largest resonance_index of the sample exchanges, on a window with turns.
C8_Witness ==
    /\ reply.success
    /\ IsFullExchange(request)
    /\ Len(conversation_history) = 2
    /\ reply.resonance_index > 600

\* C9: with the other five scores and AM fixed, raising one score never lowers
\* the resonance_index and lowering one never raises it.
C9_AggregationMonotone ==
    result # NoResult =>
        /\ args.value >= args.s[args.name] => result.after >= result.before
        /\ args.value <= args.s[args.name] => result.after <= result.before

\* One score raised, and the resonance_index rose with it.
C9_Witness ==
    /\ result # NoResult
    /\ args.value > args.s[args.name]
    /\ result.after > result.before

\* C10: for every exchange the alignment multiplier returned, computed or
\* fallback, lies in [0.8, 1.2].
C10_ModulatorInRange ==
    reply.success =>
        (reply.alignment_modulator >= 800 /\ reply.alignment_modulator <= 1200)

\* A precision-seeking prompt answered in more than 300 words: the computed
\* multiplier sits on the lower clamp.
C10_Witness ==
    /\ reply.success
    /\ request.user_prompt = "P_precise"
    /\ request.ai_response = "R_long"
    /\ reply.alignment_modulator = 800

\* C11: for every successful analysis, with or without a response and whatever
\* the window holds, each of the six dimension scores lies in [0, 1].
C11_ScoresInUnitRange ==
    reply.success =>
        /\ \A name \in ScoreNames :
               reply.dimension_scores[name] >= 0 /\ reply.dimension_scores[name] <= 1000
        /\ reply.iai_score >= 0 /\ reply.iai_score <= IAI_DEN

\* A full exchange on a window with turns, two of whose scores sit on the
\* upper end of the range.
C11_Witness ==
    /\ reply.success
    /\ IsFullExchange(request)
    /\ Len(conversation_history) = 2
    /\ reply.dimension_scores.cai = 1000
    /\ reply.dimension_scores.cps = 1000

\* C12: the CAI score is the step function 0 -> 0, 1 -> 0.25, 2 -> 0.5,
\* 3 -> 0.75, 4 or more -> 1.0 of the number of valid anchors summed over the
\* three families; it is one of those five values and does not decrease when
\* a family gains an anchor.
C12_CaiStepFunction ==
    result.op = "cai" =>
        LET n == args.g.boundary_count + args.g.analogy_count
                     + args.g.hypothesis_count
        IN  /\ result.score = (IF n >= 4 THEN 1000 ELSE 250 * n)
            /\ result.score \in {0, 250, 500, 750, 1000}
            /\ result.more \in {0, 250, 500, 750, 1000}
            /\ result.more >= result.score

\* Three anchors, one in each family, score 0.75; a fourth reaches 1.0.
C12_Witness ==
    /\ result.op = "cai"
    /\ args.g.boundary_count = 1 /\ args.g.analogy_count = 1
    /\ args.g.hypothesis_count = 1
    /\ result.score = 750
    /\ result.more = 1000

C14_OnlyLastThreeConsulted ==
    result.op = "cps" => result.first = result.second

\* One window holds an older turn of level 5, the other does not; both end
\* with three turns of level 2, and an exchange of base level 3 gets level 4.
C14_Witness ==
    /\ result.op = "cps"
    /\ args.user_level = 3 /\ args.ai_level = 1
    /\ args.recent = <<2, 2, 2>>
    /\ args.older1 = <<5>> /\ args.older2 = <<1>>
    /\ result.first = 4 /\ result.second = 4

\* C15: the window influences only CPS.  Whatever the window, a full
\* exchange's IAI, CAI, PAS, SAS and CSS scores, its AM and its detected intent
\* are those of the prompt and the response alone; the achieved level is the
\* base level of the exchange or, by the progression bonus, one above it, and
\* CPS is a fifth of it.
C15_WindowInfluencesOnlyCps ==
    (reply.success /\ IsFullExchange(request)) =>
        LET f == Prompt(request.user_prompt)
            g == Response(request.ai_response)
            d == reply.dimension_scores
            base_level == CPS_analyze(f, g, <<>>)
        IN  /\ reply.iai_score = IAI_analyze(f)
            /\ d.iai = round_iai(IAI_analyze(f))
            /\ d.cai = CAI_analyze(g)
            /\ d.pas = PAS_analyze(g)
            /\ d.sas = SAS_analyze(f, g)
            /\ d.css = css_score(CSS_analyze(f, g))
            /\ reply.alignment_modulator = AM_analyze(f, g)
            /\ <<reply.uip_detected, reply.uip_confidence>> = detect_uip(f)
            /\ reply.achieved_level \in {base_level, Min(base_level + 1, 5)}
            /\ d.cps * 5 = reply.achieved_level * 1000

\* The same exchange scored on a window it progresses beyond: its level is one
\* above its base level.
C15_Witness ==
    /\ reply.success
    /\ Len(conversation_history) = 2
    /\ conversation_history[1].cps_level = 1
    /\ request.user_prompt = "P_precise" /\ request.ai_response = "R_collab"
    /\ reply.achieved_level = 5
    /\ reply.dimension_scores.css = 1000

\* C16: when requests are served concurrently, no other request's append or
\* truncate comes between a request's read of the window by the progression
\* analyzer and that request's own append: a request about to append finds
\* the window as it read it.
C16_ReadThenAppendExclusive ==
    \A t \in ThreadIds :
        threads[t].pc = "append" => conversation_history = threads[t].seen

C18_CollaborationSteps ==
    result.op = "collaboration" =>
        LET n == Cardinality(args.present)
        IN  result.score = (IF n = 0 THEN 100 ELSE IF n >= 3 THEN 1000
                            ELSE 100 + 300 * n)

\* Three distinct collaborative phrases: exactly 1.0.
C18_Witness ==
    /\ result.op = "collaboration"
    /\ args.present = {"let's", "together", "shall we"}
    /\ result.score = 1000

\* C19: the PAS chunking sub-score is min(1.0, P + min(0.15*s, 0.3)
\* + min(0.1*l, 0.4)), P being 0.3 for a text with a blank-line break and 0
\* otherwise, s the number of sequencing words and l the number of list
\* markers; 3 list markers, 2 sequencing words and a break give 0.9.
C19_ChunkingFormula ==
    result.op = "chunking" =>
        LET P == IF args.g.multi_paragraph THEN 300 ELSE 0
            sq == IF args.g.seq_count >= 2 THEN 300 ELSE 150 * args.g.seq_count
            l == IF args.g.list_count >= 4 THEN 400 ELSE 100 * args.g.list_count
        IN  /\ result.score = (IF P + sq + l > 1000 THEN 1000 ELSE P + sq + l)
            /\ (args.g.multi_paragraph /\ args.g.seq_count = 2
                    /\ args.g.list_count = 3) => result.score = 900

\* The scenario of the claim: 0.3 + 0.3 + 0.3.
C19_Witness ==
    /\ result.op = "chunking"
    /\ args.g.multi_paragraph /\ args.g.seq_count = 2 /\ args.g.list_count = 3
    /\ result.score = 900

\* C20: the detected intent is the category with the highest keyword-match
\* count; when no category matches or the highest count is shared by two or
\* more categories it is precision_seeker; the confidence is
\* min(matches / 3, 1.0) for the winning count (to the thousandth).
C20_IntentDetection ==
    result.op = "uip" =>
        LET counts == args.f.uip_keywords
            top == Max(counts[1], Max(counts[2], counts[3]))
            winners == {i \in 1..3 : counts[i] = top}
        IN  /\ result.detected =
                   (IF top = 0 \/ Cardinality(winners) >= 2
                    THEN "precision_seeker"
                    ELSE UipNames[CHOOSE i \in winners : TRUE])
            /\ result.confidence = (IF top >= 3 THEN 1000
                                    ELSE IF top = 2 THEN 667
                                    ELSE IF top = 1 THEN 333 ELSE 0)

\* C21: the detected ai_level is a level with the highest count of AI keywords
\* found in the response, and it is 2 (Exploration) when the response has no
\* AI keyword of any level.
C21_AiLevelDetection ==
    result.op = "ai_level" =>
        LET counts == args.g.ai_keywords
        IN  /\ \A l \in 1..5 : counts[result.ai_level] >= counts[l]
            /\ (\A l \in 1..5 : counts[l] = 0) => result.ai_level = 2

\* C22: the detected user_level maximizes count * (1 + 0.1 * level) over the
\* five levels; of two levels with the same non-zero count of user keywords
\* the lower is never chosen; with no user keyword of any level found it is 1.
C22_UserLevelDetection ==
    result.op = "user_level" =>
        LET counts == args.f.user_keywords
            chosen == result.user_level
        IN  /\ \A l \in 1..5 : counts[chosen] * (10 + chosen) >= counts[l] * (10 + l)
            /\ \A l \in 1..5 : \A m \in 1..5 :
                   (l < m /\ counts[l] = counts[m] /\ counts[l] > 0) => chosen # l
            /\ (\A l \in 1..5 : counts[l] = 0) => chosen = 1

\* Levels 2 and 4 both have two keywords in the prompt: level 4 is chosen.
C22_Witness ==
    /\ result.op = "user_level"
    /\ args.f.user_keywords = <<0, 2, 0, 2, 0>>
    /\ result.user_level = 4

\* C23: the multiplier is the base value given by the style match (the mean
\* of the response's style scores over the four preferred styles of the
\* intent: >= 0.8 -> 1.2, >= 0.6 -> 1.1, >= 0.4 -> 1.0, >= 0.2 -> 0.9, else
\* 0.8), less 0.1 for a precision_seeker response of more than 300 words,
\* plus 0.1 for a co_creation_partner response whose interactive score
\* exceeds 0.5, clamped to [0.8, 1.2].
C23_MultiplierComputation ==
    result.op = "am" =>
        LET uip == args.detected_uip
            st == result.ai_style
            total == IF uip = "precision_seeker" THEN st.concise + st.structured
                     ELSE IF uip = "strategic_explorer" THEN st.framework + st.structured
                     ELSE st.interactive
            base == IF total >= 3200 THEN 1200
                    ELSE IF total >= 2400 THEN 1100
                    ELSE IF total >= 1600 THEN 1000
                    ELSE IF total >= 800 THEN 900
                    ELSE 800
            adjusted ==
                base - (IF uip = "precision_seeker" /\ args.g.word_count > 300
                        THEN 100 ELSE 0)
                     + (IF uip = "co_creation_partner" /\ st.interactive > 500
                        THEN 100 ELSE 0)
        IN  result.am_score =
                (IF adjusted < 800 THEN 800 ELSE IF adjusted > 1200 THEN 1200
                 ELSE adjusted)

\* A precision seeker gets a structured response of 301 words: the style
\* match 0.25 gives 0.9, the penalty brings it to 0.8.
C23_Witness ==
    /\ result.op = "am"
    /\ args.detected_uip = "precision_seeker"
    /\ args.g.word_count = 301
    /\ result.ai_style.structured = 1000 /\ result.ai_style.concise = 0
    /\ result.am_score = 800

\* C24: the expectation_sync sub-score is 0.7 when the prompt has no
\* expectation keyword; when it has at least one it is
\* min(0.5 + 0.2 * matches, 1.0), matches being the number of the prompt's
\* expectation keywords that the response satisfies, so that a prompt whose
\* expectations are all unmet scores 0.5.
C24_ExpectationSync ==
    result.op = "expectation" =>
        LET present == args.f.expectation_words
            matches == Cardinality({w \in present : expectation_met(w, args.g)})
        IN  result.score =
                (IF present = {} THEN 700
                 ELSE IF 500 + 200 * matches > 1000 THEN 1000
                 ELSE 500 + 200 * matches)

\* C25: each CSS sub-score lies in [0, 1]; the level is 5, 4, 3, 2 for a
\* combined score 0.6 * ai_safety + 0.3 * user_comfort + 0.1 * context of at
\* least 0.8, 0.7, 0.6, 0.4 and 1 below that; css_score is a fifth of the
\* level; the level lies in 1..5 and does not decrease when one sub-score
\* increases and the others stay.
C25_CssLevelMapping ==
    result.op = "css" =>
        LET combined == 6 * result.ai_safety + 3 * result.user_comfort
                            + result.context
        IN  /\ \A x \in {result.ai_safety, result.user_comfort, result.context} :
                   x >= 0 /\ x <= 1000
            /\ result.css_level =
                   (IF combined >= 8000 THEN 5 ELSE IF combined >= 7000 THEN 4
                    ELSE IF combined >= 6000 THEN 3 ELSE IF combined >= 4000 THEN 2
                    ELSE 1)
            /\ result.css_score * 5 = result.css_level * 1000
            /\ result.css_level \in 1..5
            /\ \A l \in result.raised : l >= result.css_level

\* C26: the multiplier computed for an exchange is 0.8, 0.9 or 1.0: the style
\* scores of an intent's four preferred styles sum to at most 2.0, a style
\* match of at most 0.5, so the base values 1.1 and 1.2 are not reached; with
\* it the resonance index of even the highest-scoring exchange is at most 1.0.
C26_MultiplierAtMostOne ==
    result.op = "am" =>
        /\ result.am_score \in {800, 900, 1000}
        /\ result.style_sum <= 2000
        /\ result.ri_top <= 1000

\* A strategic explorer gets a response with both scored preferred styles at
\* 1.0: the style match is 0.5 and the multiplier 1.0.
C26_Witness ==
    /\ result.op = "am"
    /\ args.detected_uip = "strategic_explorer"
    /\ result.ai_style.framework = 1000 /\ result.ai_style.structured = 1000
    /\ result.am_score = 1000
    /\ result.ri_top = 1000

\* C27: a request answered with an error (success false, status 400), be it
\* for a prompt that fails validation or for an exception raised while
\* analyzing, leaves the window as it was; the window changes only with a
\* request that is answered successfully.
C27_ErrorKeepsWindow ==
    [][ /\ (reply'.status = 400 \/ ~reply'.success) =>
               conversation_history' = conversation_history
        /\ conversation_history' # conversation_history =>
               (reply'.success /\ reply'.status = 200)
      ]_vars

\* The response is a number: the anchor analyzer raises, the request is
\* answered 400, and the window still holds the two turns it held.
C27_Witness ==
    /\ request.json
    /\ request.user_prompt = "P_forloop" /\ request.ai_response = NUMBER
    /\ reply.status = 400 /\ reply.error = "exception"
    /\ Len(conversation_history) = 2
    /\ conversation_history = log

\* C28: concurrent full exchanges lose no appended turn: one request's
\* truncation (take the last-10 slice, then write it over the window) never
\* discards a turn another request appended in between, so once the requests
\* have completed on a window that had room for their turns, every appended
\* turn is in the window.
C28_NoAppendedTurnLost ==
    ((\A t \in ThreadIds : threads[t].pc = "idle") /\ Len(log) <= WINDOW) =>
        /\ Len(conversation_history) = Len(log)
        /\ \A i \in 1..Len(log) :
               \E j \in 1..Len(conversation_history) : conversation_history[j] = log[i]

\* C29: in a sequence of full exchanges served one after the other, the level
\* recorded for a turn is at least the turn's base level; hence an exchange
\* whose base level does not exceed that of one of the (up to 3) exchanges
\* just before it gets no bonus, and the bonus is not given twice in a row for
\* the same base level; an exchange submitted again right after itself is
\* recorded at its base level, which is not above the level recorded before.
C29_NoRepeatedBonus ==
    LET base(i) == CPS_analyze(Prompt(log[i].user_prompt),
                               Response(log[i].ai_response), <<>>)
    IN  \A i \in 1..Len(log) :
            /\ log[i].cps_level >= base(i)
            /\ (\E j \in 1..(i - 1) : j >= i - 3 /\ base(j) >= base(i)) =>
                   log[i].cps_level = base(i)
            /\ (i > 1 /\ base(i - 1) = base(i)) =>
                   ~(log[i - 1].cps_level > base(i - 1) /\ log[i].cps_level > base(i))
            /\ (i > 1 /\ log[i].user_prompt = log[i - 1].user_prompt
                      /\ log[i].ai_response = log[i - 1].ai_response) =>
                   (log[i].cps_level = base(i)
                        /\ log[i].cps_level <= log[i - 1].cps_level)

\* An exchange of base level 3 follows one of base level 1 and is recorded
\* at 4; submitted again, it is recorded at 3.
C29_Witness ==
    /\ Len(log) = 3 /\ conversation_history = log
    /\ log[1].cps_level = 1
    /\ log[2].user_prompt = "P_precise" /\ log[2].ai_response = "R_plain"
    /\ log[3].user_prompt = "P_precise" /\ log[3].ai_response = "R_plain"
    /\ log[2].cps_level = 4
    /\ log[3].cps_level = 3

\* The scores of an exchange that has the least value in each dimension:
\* levels start at 1, so CPS and CSS are at least 0.2.
LowestScores ==
    [iai |-> 0, cai |-> 0, pas |-> 0, sas |-> 0, cps |-> cps_score(1),
     css |-> css_score(1)]

\* C30: the resonance_index of every successful analysis is above 0.  With a
\* response, CPS and CSS are at least 0.2 each and AM at least 0.8, so it is
\* at least 0.8 * (0.1 * 0.2 + 0.1 * 0.2); without one, the fallback
\* constants alone contribute 0.175.
C30_ResonanceIndexPositive ==
    reply.success =>
        /\ reply.resonance_index > 0
        /\ IsFullExchange(request) =>
               /\ reply.dimension_scores.cps >= 200
               /\ reply.dimension_scores.css >= 200
               /\ reply.alignment_modulator >= 800
               /\ reply.resonance_index >= resonance_index(LowestScores, 800)
        /\ ~IsFullExchange(request) => reply.resonance_index >= 175

\* An exchange with CPS and CSS at 0.2 and the multiplier at 0.8, answered on
\* a window that holds a turn.
C30_Witness ==
    /\ reply.success /\ IsFullExchange(request)
    /\ Len(conversation_history) = 2
    /\ reply.dimension_scores.cps = 200
    /\ reply.dimension_scores.css = 200
    /\ reply.alignment_modulator = 800
    /\ reply.resonance_index > 0

====
